---------------------------- MODULE Spec2Model ----------------------------
(***************************************************************************)
(* A model of analysis.py: the HAR performance analyzer                    *)
(* (HARPerformanceAnalyzer and batch_analyze_har_files).                   *)
(*                                                                         *)
(* Conventions                                                             *)
(*  - A Python str that the code inspects (url, content type) is a         *)
(*    sequence of one-character strings, so that `in`, endswith, lower and *)
(*    split are computed and not assumed.                                  *)
(*  - A number of milliseconds is an integer count of thousandths of a ms  *)
(*    (500 ms = 500000), so that round(x, 2) is a real operation.          *)
(*  - dict.get(key, default) on a possibly missing key: the value is <<>>  *)
(*    when the key is missing and <<v>> when it is present.  A missing     *)
(*    nested object (entry.get("request", {})) is the object whose keys    *)
(*    are all missing.                                                     *)
(*  - The display labels of the source are not ASCII; the model writes     *)
(*    "yes"/"no" for the two-valued flag labels, "unavailable" and         *)
(*    "not captured" for the two placeholders, and English names for the   *)
(*    resource types and the finding categories.                           *)
(***************************************************************************)
EXTENDS Integers, Sequences, FiniteSets, TLC

VARIABLES
    pc,             \* position in the operation under analysis
    url,            \* _get_resource_type: argument url
    content_type,   \* _get_resource_type: argument content_type (<<>> is None)
    resource_type,  \* _get_resource_type: returned label
    entries,        \* self.entries
    pages,          \* self.pages
    request_list,   \* analyze_request_details: the list being built
    request_df,     \* the request DataFrame
    page_timings,   \* result of analyze_page_timings
    summary_df,     \* result of generate_summary
    bottleneck_df,  \* result of identify_bottlenecks
    output,         \* export_to_excel: "" before it returns, then the path or "None"
    exc,            \* export_to_excel: the exception its except clause caught, or ""
    summary_in,     \* identify_bottlenecks: the summary it is applied to
    disk,           \* batch: content of each file of the har directory
    globbed,        \* batch: the list glob.glob returned
    har_files,      \* batch: sorted, de-duplicated list of files
    file_pos,       \* batch: number of loop iterations completed
    attempts,       \* batch: files in the order the loop body started on them
    results,        \* batch: list of successfully analysed files
    failed_files    \* batch: list of failed files

vars == <<pc, url, content_type, resource_type, entries, pages, request_list,
          request_df, page_timings, summary_df, bottleneck_df, output,
          exc, summary_in, disk, globbed, har_files, file_pos, attempts, results,
          failed_files>>

-----------------------------------------------------------------------------
(* Bounds of the model *)

MaxEntries == 2
MaxPipelineEntries == 1
MaxFiles == 2

-----------------------------------------------------------------------------
(* Python str operations on character sequences *)

\* sub in s
Contains(s, sub) ==
    \E i \in 1..(Len(s) - Len(sub) + 1) : SubSeq(s, i, i + Len(sub) - 1) = sub

\* s.endswith(suf)
EndsWith(s, suf) ==
    /\ Len(suf) <= Len(s)
    /\ SubSeq(s, Len(s) - Len(suf) + 1, Len(s)) = suf

\* s.endswith((suf1, suf2, ...))
EndsWithAny(s, sufs) == \E suf \in sufs : EndsWith(s, suf)

UpperLetters == <<"A", "B", "C", "D", "E", "F", "G", "H", "I", "J", "K", "L", "M",
                  "N", "O", "P", "Q", "R", "S", "T", "U", "V", "W", "X", "Y", "Z">>
LowerLetters == <<"a", "b", "c", "d", "e", "f", "g", "h", "i", "j", "k", "l", "m",
                  "n", "o", "p", "q", "r", "s", "t", "u", "v", "w", "x", "y", "z">>

LowerChar(c) ==
    IF \E i \in 1..Len(UpperLetters) : UpperLetters[i] = c
    THEN LowerLetters[CHOOSE i \in 1..Len(UpperLetters) : UpperLetters[i] = c]
    ELSE c

\* s.lower()
Lower(s) == [i \in 1..Len(s) |-> LowerChar(s[i])]

\* index of the leftmost occurrence of sep in s, 0 when there is none
FindFirst(s, sep) ==
    IF Contains(s, sep)
    THEN CHOOSE i \in 1..(Len(s) - Len(sep) + 1) :
            /\ SubSeq(s, i, i + Len(sep) - 1) = sep
            /\ \A j \in 1..(i - 1) : SubSeq(s, j, j + Len(sep) - 1) # sep
    ELSE 0

\* s.split(sep), sep not empty: the list of the pieces between the
\* occurrences of sep, found left to right without overlap
RECURSIVE Split(_, _)
Split(s, sep) ==
    LET i == FindFirst(s, sep)
    IN  IF i = 0
        THEN <<s>>
        ELSE <<SubSeq(s, 1, i - 1)>> \o Split(SubSeq(s, i + Len(sep), Len(s)), sep)

\* dict.get(key, default)
Get(opt, default) == IF opt = <<>> THEN default ELSE opt[1]

-----------------------------------------------------------------------------
(* Strings of the source *)

TEXT_HTML == <<"t", "e", "x", "t", "/", "h", "t", "m", "l">>
TEXT_CSS == <<"t", "e", "x", "t", "/", "c", "s", "s">>
APP_JAVASCRIPT == <<"a", "p", "p", "l", "i", "c", "a", "t", "i", "o", "n", "/", "j", "a", "v", "a", "s", "c", "r", "i", "p", "t">>
TEXT_JAVASCRIPT == <<"t", "e", "x", "t", "/", "j", "a", "v", "a", "s", "c", "r", "i", "p", "t">>
IMAGE_ == <<"i", "m", "a", "g", "e", "/">>
FONT_ == <<"f", "o", "n", "t", "/">>
APP_FONT == <<"a", "p", "p", "l", "i", "c", "a", "t", "i", "o", "n", "/", "f", "o", "n", "t">>
APP_JSON == <<"a", "p", "p", "l", "i", "c", "a", "t", "i", "o", "n", "/", "j", "s", "o", "n">>
DOT_JSON == <<".", "j", "s", "o", "n">>
VIDEO_ == <<"v", "i", "d", "e", "o", "/">>
SLASH2 == <<"/", "/">>
SLASH == <<"/">>
UNKNOWN == <<"u", "n", "k", "n", "o", "w", "n">>
UNKNOWN_URL == <<"U", "n", "k", "n", "o", "w", "n", " ", "U", "R", "L">>

JsExtensions == { <<".", "j", "s">>, <<".", "j", "s", "x">>,
                  <<".", "t", "s">>, <<".", "t", "s", "x">> }
CssExtensions == { <<".", "c", "s", "s">> }
ImageExtensions == { <<".", "j", "p", "g">>, <<".", "j", "p", "e", "g">>,
                     <<".", "p", "n", "g">>, <<".", "g", "i", "f">>,
                     <<".", "s", "v", "g">>, <<".", "w", "e", "b", "p">> }
FontExtensions == { <<".", "w", "o", "f", "f">>, <<".", "w", "o", "f", "f", "2">>,
                    <<".", "t", "t", "f">>, <<".", "e", "o", "t">> }

\* The eight labels _get_resource_type returns
ResourceTypes == {"HTML", "CSS", "JS", "Image", "Font", "JSON-API", "Video", "Other"}

-----------------------------------------------------------------------------
(* Inputs: URLs and declared content types *)

U_APPJS == <<"h", "t", "t", "p", "s", ":", "/", "/", "c", "d", "n", ".", "e", "x", "a", "m", "p", "l", "e", ".", "c", "o", "m", "/", "a", "p", "p", ".", "j", "s">>
U_DSLASH == <<"h", "t", "t", "p", "s", ":", "/", "/", "a", ".", "c", "o", "m", "/", "x", "/", "/", "y">>
U_PLAIN == <<"h", "t", "t", "p", "s", ":", "/", "/", "a", ".", "c", "o", "m", "/", "x">>
U_NOSCHEME == <<"a", ".", "c", "o", "m", "/", "x">>
U_JSON == <<"h", "t", "t", "p", "s", ":", "/", "/", "a", ".", "c", "o", "m", "/", "d", ".", "j", "s", "o", "n">>
U_UPPERCSS == <<"h", "t", "t", "p", "s", ":", "/", "/", "a", ".", "c", "o", "m", "/", "S", ".", "C", "S", "S">>
U_PNG == <<"h", "t", "t", "p", "s", ":", "/", "/", "a", ".", "c", "o", "m", "/", "i", ".", "p", "n", "g">>
U_WOFF2 == <<"h", "t", "t", "p", "s", ":", "/", "/", "a", ".", "c", "o", "m", "/", "f", ".", "w", "o", "f", "f", "2">>
U_UPPERJSON == <<"h", "t", "t", "p", "s", ":", "/", "/", "a", ".", "c", "o", "m", "/", "D", ".", "J", "S", "O", "N">>
U_EMPTY == <<>>

CT_EMPTY == <<>>
CT_HTML == <<"t", "e", "x", "t", "/", "h", "t", "m", "l", ";", " ", "c", "h", "a", "r", "s", "e", "t", "=", "u", "t", "f", "-", "8">>
CT_XJS == <<"a", "p", "p", "l", "i", "c", "a", "t", "i", "o", "n", "/", "x", "-", "j", "a", "v", "a", "s", "c", "r", "i", "p", "t">>
CT_PNG == <<"i", "m", "a", "g", "e", "/", "p", "n", "g">>
CT_WOFF2 == <<"f", "o", "n", "t", "/", "w", "o", "f", "f", "2">>
CT_FONTWOFF == <<"a", "p", "p", "l", "i", "c", "a", "t", "i", "o", "n", "/", "f", "o", "n", "t", "-", "w", "o", "f", "f">>
CT_MP4 == <<"v", "i", "d", "e", "o", "/", "m", "p", "4">>
CT_PLAIN == <<"t", "e", "x", "t", "/", "p", "l", "a", "i", "n">>
CT_MULTI == <<"m", "u", "l", "t", "i", "p", "a", "r", "t", "/", "m", "i", "x", "e", "d", ";", " ", "t", "e", "x", "t", "/", "c", "s", "s", ",", " ", "i", "m", "a", "g", "e", "/", "p", "n", "g">>

Urls == {U_APPJS, U_DSLASH, U_PLAIN, U_NOSCHEME, U_JSON, U_UPPERCSS, U_PNG,
         U_WOFF2, U_UPPERJSON, U_EMPTY}

\* <<>> is None (no content type at all); <<s>> is the string s
ContentTypes == { <<>> } \cup
    { <<ct>> : ct \in {CT_EMPTY, CT_HTML, TEXT_CSS, APP_JAVASCRIPT, TEXT_JAVASCRIPT,
                       CT_XJS, CT_PNG, CT_WOFF2, CT_FONTWOFF, APP_JSON, CT_MP4,
                       CT_PLAIN, CT_MULTI} }

-----------------------------------------------------------------------------
(* HARPerformanceAnalyzer._get_resource_type *)

\* the else branch: classification by the file extension of url.lower()
ExtensionType(u) ==
    IF EndsWithAny(Lower(u), JsExtensions) THEN "JS"
    ELSE IF EndsWithAny(Lower(u), CssExtensions) THEN "CSS"
    ELSE IF EndsWithAny(Lower(u), ImageExtensions) THEN "Image"
    ELSE IF EndsWithAny(Lower(u), FontExtensions) THEN "Font"
    ELSE "Other"

\* A classifier that lets the URL extension decide before the content type
get_resource_type_ext_first(u, ct_arg) ==
    LET ct == IF ct_arg = <<>> \/ ct_arg[1] = <<>> THEN <<>> ELSE ct_arg[1]
    IN  IF ExtensionType(u) # "Other" THEN ExtensionType(u)
        ELSE IF Contains(ct, TEXT_HTML) THEN "HTML"
        ELSE IF Contains(ct, TEXT_CSS) THEN "CSS"
        ELSE IF Contains(ct, APP_JAVASCRIPT) \/ Contains(ct, TEXT_JAVASCRIPT) THEN "JS"
        ELSE IF Contains(ct, IMAGE_) THEN "Image"
        ELSE IF Contains(ct, FONT_) \/ Contains(ct, APP_FONT) THEN "Font"
        ELSE IF Contains(ct, APP_JSON) \/ EndsWith(u, DOT_JSON) THEN "JSON-API"
        ELSE IF Contains(ct, VIDEO_) THEN "Video"
        ELSE "Other"

\* ct_arg is <<>> for None and <<s>> for the string s
get_resource_type(u, ct_arg) ==
    LET ct == IF ct_arg = <<>> \/ ct_arg[1] = <<>> THEN <<>> ELSE ct_arg[1]
    IN  IF Contains(ct, TEXT_HTML) THEN "HTML"
        ELSE IF Contains(ct, TEXT_CSS) THEN "CSS"
        ELSE IF Contains(ct, APP_JAVASCRIPT) \/ Contains(ct, TEXT_JAVASCRIPT) THEN "JS"
        ELSE IF Contains(ct, IMAGE_) THEN "Image"
        ELSE IF Contains(ct, FONT_) \/ Contains(ct, APP_FONT) THEN "Font"
        ELSE IF Contains(ct, APP_JSON) \/ EndsWith(u, DOT_JSON) THEN "JSON-API"
        ELSE IF Contains(ct, VIDEO_) THEN "Video"
        ELSE ExtensionType(u)

-----------------------------------------------------------------------------
(* Numbers *)

\* the integer nearest to num / den (den > 0), a tie going to the even one:
\* Python's round() on a value that is exactly representable
RoundHalfEven(num, den) ==
    LET q == num \div den
        r == num % den
    IN  IF 2 * r < den THEN q
        ELSE IF 2 * r > den THEN q + 1
        ELSE IF q % 2 = 0 THEN q ELSE q + 1

\* round(x, 2) of a number of thousandths: a multiple of 10 thousandths
Round2(x) == 10 * RoundHalfEven(x, 10)

\* the "no data" value of a HAR timing, -1 ms
Sentinel == -1000
\* the threshold of a slow resource, 500 ms
SlowThreshold == 500000
\* the first status code of an error request
ErrorStatus == 400
\* bytes in a kilobyte
BytesPerKB == 1024

-----------------------------------------------------------------------------
(* Inputs: raw trace entries.  Every leaf is <<>> (the key is missing) or  *)
(* <<v>>.  Times are thousandths of a ms, sizes are bytes.                 *)

Phases == {"dns", "connect", "ssl", "send", "wait", "receive"}

T_ABSENT == [p \in Phases |-> <<>>]
T_SENTINEL == [dns |-> <<-1000>>, connect |-> <<-1000>>, ssl |-> <<-1000>>,
               send |-> <<125>>, wait |-> <<100000>>, receive |-> <<20004>>]
T_POSITIVE == [dns |-> <<12500>>, connect |-> <<30125>>, ssl |-> <<41000>>,
               send |-> <<1336>>, wait |-> <<250000>>, receive |-> <<8000>>]
T_NEGATIVE == [dns |-> <<-2000>>, connect |-> <<-500>>, ssl |-> <<-1000>>,
               send |-> <<0>>, wait |-> <<-7>>, receive |-> <<>>]

BaseEntry ==
    [url |-> <<U_PLAIN>>, method |-> <<"GET">>, status |-> <<200>>,
     mimeType |-> <<CT_HTML>>, time |-> <<120340>>,
     headersSize |-> <<300>>, bodySize |-> <<1748>>, timings |-> T_POSITIVE]

\* entries that differ in total time and status
TimeStatusEntries ==
    { [BaseEntry EXCEPT !.time = t, !.status = st] :
        t \in { <<>>, <<-1000>>, <<500000>>, <<500001>>, <<600000>> },
        st \in { <<>>, <<200>>, <<400>>, <<404>> } }

\* entries that differ in URL and declared content type
UrlEntries ==
    { [BaseEntry EXCEPT !.url = u, !.mimeType = m, !.method = <<"POST">>] :
        u \in { <<>>, <<U_NOSCHEME>>, <<U_DSLASH>>, <<U_APPJS>> },
        m \in { <<>> } }

\* entries that differ in the timing breakdown and the sizes
TimingEntries ==
    { [BaseEntry EXCEPT !.timings = T_ABSENT, !.headersSize = <<>>,
                        !.bodySize = <<>>, !.method = <<>>],
      [BaseEntry EXCEPT !.timings = T_SENTINEL, !.headersSize = <<-1>>,
                        !.bodySize = <<0>>],
      [BaseEntry EXCEPT !.timings = T_NEGATIVE, !.headersSize = <<-1>>,
                        !.bodySize = <<2049>>] }

EntrySet == TimeStatusEntries \cup UrlEntries \cup TimingEntries

\* the lists of at most n entries
EntryLists(n) == UNION { [1..k -> EntrySet] : k \in 0..n }

-----------------------------------------------------------------------------
(* HARPerformanceAnalyzer.analyze_request_details *)

\* url.split("//")[-1].split("/")[0], or "unknown" when url has no "//"
Domain(u) ==
    IF Contains(u, SLASH2)
    THEN LET parts == Split(u, SLASH2)
         IN  Split(parts[Len(parts)], SLASH)[1]
    ELSE UNKNOWN

\* timing.get(k, -1) if timing.get(k, -1) != -1 else 0
PhaseTime(opt) == IF Get(opt, Sentinel) # Sentinel THEN Get(opt, Sentinel) ELSE 0

\* entry.get("time", 0)
TotalTime(entry) == Get(entry.time, 0)

\* (headers_size + body_size) / 1024 if the sum is positive, else 0,
\* rounded to 2 places: hundredths of a KB
TotalSize(entry) ==
    LET sum == Get(entry.headersSize, 0) + Get(entry.bodySize, 0)
    IN  IF sum > 0 THEN RoundHalfEven(sum * 100, BytesPerKB) ELSE 0

\* a slow mark that counts the threshold itself as slow
IsSlowInclusive(total_time) == IF total_time >= SlowThreshold THEN "yes" ELSE "no"

\* "yes" if total_time > 500 else "no"
IsSlow(total_time) == IF total_time > SlowThreshold THEN "yes" ELSE "no"

\* "yes" if response.get("status", 0) >= 400 else "no"
IsError(entry) == IF Get(entry.status, 0) >= ErrorStatus THEN "yes" ELSE "no"

\* the columns of the request table
RequestColumns == {"seq", "url", "resource_type", "method", "status", "domain",
                   "total", "dns", "tcp", "ssl", "send", "wait", "receive",
                   "size", "is_slow", "is_error"}

\* a loop body that numbers the records from 0
RequestRecordFromZero(idx, entry) ==
    [seq           |-> idx - 1,
     url           |-> Get(entry.url, <<>>),
     resource_type |-> get_resource_type(Get(entry.url, <<>>),
                                         <<Get(entry.mimeType, <<>>)>>),
     method        |-> Get(entry.method, ""),
     status        |-> Get(entry.status, 0),
     domain        |-> Domain(Get(entry.url, <<>>)),
     total         |-> Round2(TotalTime(entry)),
     dns           |-> Round2(PhaseTime(entry.timings.dns)),
     tcp           |-> Round2(PhaseTime(entry.timings.connect)),
     ssl           |-> Round2(PhaseTime(entry.timings.ssl)),
     send          |-> Round2(PhaseTime(entry.timings.send)),
     wait          |-> Round2(PhaseTime(entry.timings.wait)),
     receive       |-> Round2(PhaseTime(entry.timings.receive)),
     size          |-> TotalSize(entry),
     is_slow       |-> IsSlow(TotalTime(entry)),
     is_error      |-> IsError(entry)]

\* the body of the loop: the record appended for the idx-th entry
RequestRecord(idx, entry) ==
    [seq           |-> idx,
     url           |-> Get(entry.url, <<>>),
     resource_type |-> get_resource_type(Get(entry.url, <<>>),
                                         <<Get(entry.mimeType, <<>>)>>),
     method        |-> Get(entry.method, ""),
     status        |-> Get(entry.status, 0),
     domain        |-> Domain(Get(entry.url, <<>>)),
     total         |-> Round2(TotalTime(entry)),
     dns           |-> Round2(PhaseTime(entry.timings.dns)),
     tcp           |-> Round2(PhaseTime(entry.timings.connect)),
     ssl           |-> Round2(PhaseTime(entry.timings.ssl)),
     send          |-> Round2(PhaseTime(entry.timings.send)),
     wait          |-> Round2(PhaseTime(entry.timings.wait)),
     receive       |-> Round2(PhaseTime(entry.timings.receive)),
     size          |-> TotalSize(entry),
     is_slow       |-> IsSlow(TotalTime(entry)),
     is_error      |-> IsError(entry)]

\* pd.DataFrame(list of dicts): the columns are the keys of the dicts, so the
\* frame of the empty list has no column at all
DataFrame(rows) ==
    [columns |-> IF rows = <<>> THEN {} ELSE RequestColumns, rows |-> rows]

\* the whole function on a list of entries
analyze_request_details(es) ==
    DataFrame([i \in 1..Len(es) |-> RequestRecord(i, es[i])])

-----------------------------------------------------------------------------
(* Values of mixed type: a table cell that holds a number or a text.       *)
(* isinstance(x, str) is ~x.isnum.                                         *)

Num(n) == [isnum |-> TRUE, v |-> n, s |-> ""]
Str(x) == [isnum |-> FALSE, v |-> 0, s |-> x]

\* datetime.fromtimestamp(ms / 1000).strftime("%Y-%m-%d %H:%M:%S"): a text
\* that shows the whole seconds of the instant and drops the rest
Timestamp(thousandths) == [isnum |-> FALSE, v |-> thousandths \div 1000000, s |-> "timestamp"]

-----------------------------------------------------------------------------
(* Inputs: page-level navigation data (the HarPage objects of the parser). *)
(* url: <<>> when reading page.url raises.  timings: <<>> when reading     *)
(* page.timings raises, else the dict.  fcp: what reading                  *)
(* page.pageTimings.get("_firstContentfulPaint", 0) gives: it raises, the  *)
(* key is absent, or the value is null, a number or a text.                *)
(* timestamp_ok: whether datetime.fromtimestamp accepts the instant.       *)

N_FULL == [navigationStart |-> <<1000000>>, domContentLoadedEventEnd |-> <<2800125>>,
           loadEventEnd |-> <<3500000>>]
N_NONE == [navigationStart |-> <<>>, domContentLoadedEventEnd |-> <<>>,
           loadEventEnd |-> <<>>]
N_EARLY == [navigationStart |-> <<1000000>>, domContentLoadedEventEnd |-> <<>>,
            loadEventEnd |-> <<400000>>]
N_ZERO == [navigationStart |-> <<0>>, domContentLoadedEventEnd |-> <<5000>>,
           loadEventEnd |-> <<7000>>]

FcpValues == { [kind |-> "raises", v |-> 0], [kind |-> "absent", v |-> 0],
               [kind |-> "null", v |-> 0], [kind |-> "text", v |-> 0],
               [kind |-> "number", v |-> 0], [kind |-> "number", v |-> -5000],
               [kind |-> "number", v |-> 1200125], [kind |-> "number", v |-> 1800000],
               [kind |-> "number", v |-> 2000000] }

BasePage == [url |-> <<U_PLAIN>>, timings |-> <<N_FULL>>,
             fcp |-> [kind |-> "number", v |-> 1200125], timestamp_ok |-> TRUE]

PageSet ==
    { [BasePage EXCEPT !.timings = <<n>>] : n \in {N_FULL, N_NONE, N_EARLY, N_ZERO} }
    \cup { [BasePage EXCEPT !.fcp = f] : f \in FcpValues }
    \cup { [BasePage EXCEPT !.timings = <<>>],
           [BasePage EXCEPT !.url = <<>>],
           [BasePage EXCEPT !.timestamp_ok = FALSE],
           [BasePage EXCEPT !.timestamp_ok = FALSE, !.timings = <<N_ZERO>>] }

\* self.pages: no page at all, or a first page
PagesSet == { <<>> } \cup { <<p>> : p \in PageSet }

-----------------------------------------------------------------------------
(* HARPerformanceAnalyzer.analyze_page_timings *)

\* the offset added to FCP for the first-screen time, 300 ms
FirstScreenOffset == 300000

PageKeys == {"url", "nav_start", "dom_ready", "load", "fcp", "first_screen"}

\* the two returns without page data: the first entry's URL with every other
\* field "unavailable", or the hint alone when there is no entry
PageFallback(es) ==
    IF es # <<>>
    THEN [url          |-> Get(es[1].url, UNKNOWN_URL),
          nav_start    |-> Str("unavailable"),
          dom_ready    |-> Str("unavailable"),
          load         |-> Str("unavailable"),
          fcp          |-> Str("unavailable"),
          first_screen |-> Str("unavailable")]
    ELSE [hint |-> Str("no page timing data")]

\* timings.get("navigationStart", 0)
NavigationStart(page) == Get(page.timings[1].navigationStart, 0)

\* (timings.get(event, 0) - navigation_start) if navigation_start > 0 else 0
EventOffset(page, event) ==
    IF NavigationStart(page) > 0
    THEN Get(event, 0) - NavigationStart(page)
    ELSE 0

\* whether an exception leaves the try block: page.timings, page.url or
\* fromtimestamp raises, or a text FCP is compared with 0
PageReadRaises(page) ==
    \/ page.timings = <<>>
    \/ page.url = <<>>
    \/ (NavigationStart(page) > 0 /\ ~page.timestamp_ok)
    \/ page.fcp.kind = "text"

\* first_contentful_paint and first_contentful_paint > 0, where the inner
\* except has put 0 for a read that raised
FcpCaptured(page) == page.fcp.kind = "number" /\ page.fcp.v # 0 /\ page.fcp.v > 0

\* an offset that may be reported negative
OffsetCellUnchecked(offset) == Num(Round2(offset))

\* round(offset, 2) if offset >= 0 else 0
OffsetCell(offset) == IF offset >= 0 THEN Num(Round2(offset)) ELSE Num(0)

\* the dict returned inside the try block
PageFull(page) ==
    LET t == page.timings[1]
        navigation_start == NavigationStart(page)
        dom_content_loaded == EventOffset(page, t.domContentLoadedEventEnd)
        load_event == EventOffset(page, t.loadEventEnd)
    IN  [url          |-> page.url[1],
         nav_start    |-> IF navigation_start # 0 /\ navigation_start > 0
                          THEN Timestamp(navigation_start) ELSE Str("none"),
         dom_ready    |-> OffsetCell(dom_content_loaded),
         load         |-> OffsetCell(load_event),
         fcp          |-> IF FcpCaptured(page) THEN Num(Round2(page.fcp.v))
                          ELSE Str("not captured"),
         first_screen |-> IF FcpCaptured(page)
                          THEN Num(Round2(page.fcp.v + FirstScreenOffset))
                          ELSE Str("not captured")]

analyze_page_timings(ps, es) ==
    IF ps = <<>> THEN PageFallback(es)
    ELSE IF PageReadRaises(ps[1]) THEN PageFallback(es)
    ELSE PageFull(ps[1])

-----------------------------------------------------------------------------
(* HARPerformanceAnalyzer.generate_summary *)

QMARK == <<"?">>

\* the number of characters kept of a URL in the top-3 list
UrlTail == 50

\* s[-n:]
LastChars(s, n) == IF Len(s) <= n THEN s ELSE SubSeq(s, Len(s) - n + 1, Len(s))

\* len(df[df[column] == label])
CountRows(rows, column, label) ==
    Cardinality({ i \in 1..Len(rows) : rows[i][column] = label })

RECURSIVE SumTotals(_)
SumTotals(rows) ==
    IF rows = <<>> THEN 0 ELSE rows[1].total + SumTotals(Tail(rows))

\* df[column].value_counts().to_dict()
ValueCounts(rows, column) ==
    [ label \in { rows[i][column] : i \in 1..Len(rows) } |->
        CountRows(rows, column, label) ]

\* df.nlargest(n, "total"): the n rows of greatest total, the earlier row
\* first among equal totals
RECURSIVE NLargest(_, _)
NLargest(rows, n) ==
    IF n = 0 \/ rows = <<>> THEN <<>>
    ELSE LET i == CHOOSE i \in 1..Len(rows) :
                    /\ \A j \in 1..Len(rows) : rows[j].total <= rows[i].total
                    /\ \A j \in 1..(i - 1) : rows[j].total < rows[i].total
             rest == SubSeq(rows, 1, i - 1) \o SubSeq(rows, i + 1, Len(rows))
         IN  <<rows[i]>> \o NLargest(rest, n - 1)

\* dict.get(key, default) on the page timing dict
PageGet(pt, key, default) == IF key \in DOMAIN pt THEN pt[key] ELSE default

\* The result is [exc, value]: exc is "" when the call returns value, and
\* "KeyError" when it raises, as it does at the first column it selects of
\* a frame that has no such column.
generate_summary(df, pt) ==
    IF ~({"is_slow", "is_error", "total", "resource_type", "domain", "url"}
            \subseteq df.columns)
    THEN [exc |-> "KeyError", value |-> <<>>]
    ELSE
    LET rows == df.rows
        total_requests == Len(rows)
        slow_requests == CountRows(rows, "is_slow", "yes")
        error_requests == CountRows(rows, "is_error", "yes")
        \* mean of the column, rounded to 2 places
        avg_total_time == IF Len(rows) > 0
                          THEN 10 * RoundHalfEven(SumTotals(rows), 10 * Len(rows))
                          ELSE 0
        resource_dist == ValueCounts(rows, "resource_type")
        domain_dist == ValueCounts(rows, "domain")
        top3_slow == NLargest(rows, 3)
    IN  [exc |-> "",
         value |->
           [total_requests |-> Num(total_requests),
            slow_requests  |-> Num(slow_requests),
            error_requests |-> Num(error_requests),
            avg_total_time |-> Num(avg_total_time),
            load           |-> PageGet(pt, "load", Num(0)),
            dom_ready      |-> PageGet(pt, "dom_ready", Num(0)),
            fcp            |-> PageGet(pt, "fcp", Str("not captured")),
            resource_dist  |-> IF total_requests > 0 THEN resource_dist
                               ELSE Str("no data"),
            domain_dist    |-> IF total_requests > 0 THEN domain_dist
                               ELSE Str("no data"),
            top3           |-> IF top3_slow # <<>>
                               THEN [i \in 1..Len(top3_slow) |->
                                       LastChars(Split(top3_slow[i].url, QMARK)[1], UrlTail)]
                               ELSE Str("no data")]]

-----------------------------------------------------------------------------
(* HARPerformanceAnalyzer.identify_bottlenecks *)

\* total requests above this are too many
RequestThreshold == 80
\* mean request time above this is too high, 300 ms
AvgThreshold == 300000
\* FCP above this is too slow, 1800 ms
FcpThreshold == 1800000

\* A finding: its type, and the value its description embeds
Finding(type, cell) == [type |-> type, value |-> cell]

\* rule 1: a text count is taken as 0 and adds nothing
SlowRule(summary) ==
    LET slow_count == summary.slow_requests
    IN  IF ~slow_count.isnum THEN <<>>
        ELSE IF slow_count.v > 0 THEN <<Finding("too many slow resources", slow_count)>>
        ELSE <<>>

\* a rule 2 that counts the threshold itself as too many
RequestRuleInclusive(summary) ==
    LET total_requests == IF ~summary.total_requests.isnum THEN Num(0)
                          ELSE summary.total_requests
    IN  IF total_requests.v >= RequestThreshold
        THEN <<Finding("too many requests", total_requests)>> ELSE <<>>

\* rule 2
RequestRule(summary) ==
    LET total_requests == IF ~summary.total_requests.isnum THEN Num(0)
                          ELSE summary.total_requests
    IN  IF total_requests.v > RequestThreshold
        THEN <<Finding("too many requests", total_requests)>> ELSE <<>>

\* rule 3
ErrorRule(summary) ==
    LET error_count == IF ~summary.error_requests.isnum THEN Num(0)
                       ELSE summary.error_requests
    IN  IF error_count.v > 0
        THEN <<Finding("error requests", error_count)>> ELSE <<>>

\* rule 4
AvgRule(summary) ==
    LET avg_time == IF ~summary.avg_total_time.isnum THEN Num(0)
                    ELSE summary.avg_total_time
    IN  IF avg_time.v > AvgThreshold
        THEN <<Finding("average request time too high", avg_time)>> ELSE <<>>

\* rule 5: fcp != "not captured" and isinstance(fcp, (int, float)) and fcp > 1800
FcpRule(summary) ==
    LET fcp == summary.fcp
    IN  IF fcp # Str("not captured") /\ fcp.isnum /\ fcp.v > FcpThreshold
        THEN <<Finding("FCP too slow", fcp)>> ELSE <<>>

NoBottleneck == Finding("no significant bottleneck", Str(""))

\* a closing step that adds the no-bottleneck finding to every list
ClosingFindingAlways(bottlenecks) == <<NoBottleneck>>

\* if not bottlenecks: bottlenecks.append(the no-bottleneck finding)
ClosingFinding(bottlenecks) ==
    IF bottlenecks = <<>> THEN <<NoBottleneck>> ELSE <<>>

identify_bottlenecks(summary) ==
    LET bottlenecks == SlowRule(summary) \o RequestRule(summary) \o ErrorRule(summary)
                        \o AvgRule(summary) \o FcpRule(summary)
    IN  bottlenecks \o ClosingFinding(bottlenecks)

-----------------------------------------------------------------------------
(* Inputs: summaries for the rule engine.  The counts and the mean are     *)
(* those of some non-empty request table: slow and error counts at most    *)
(* the total, and a mean on the side of 500 ms that the slow count forces. *)

SummaryOf(total, slow, err, avg, fcp) ==
    [total_requests |-> Num(total), slow_requests |-> Num(slow),
     error_requests |-> Num(err), avg_total_time |-> Num(avg),
     load |-> Num(0), dom_ready |-> Num(0), fcp |-> fcp,
     resource_dist |-> Str("no data"), domain_dist |-> Str("no data"),
     top3 |-> Str("no data")]

SummarySet ==
    { SummaryOf(sm[1], sm[2], sm[3], sm[4], sm[5]) :
        sm \in { x \in {1, 80, 81, 85} \X {0, 1, 3} \X {0, 2}
                     \X {0, 200000, 300000, 300010, 650000}
                     \X { Str("not captured"), Str("unavailable"), Num(1800000),
                          Num(1800010), Num(2000000) } :
                  /\ x[2] <= x[1] /\ x[3] <= x[1]
                  /\ x[2] = 0 => x[4] <= 500000
                  /\ x[2] = x[1] => x[4] > 500000
                  /\ x[2] > 0 => x[4] > 0 } }

-----------------------------------------------------------------------------
(* HARPerformanceAnalyzer.export_to_excel as a function of the analyzer's  *)
(* entries and pages and of whether the report can be written: the path,   *)
(* or "None" when an exception was caught.  Of the four analyses only      *)
(* generate_summary can raise on the inputs of the model.                  *)

export_to_excel(es, ps, written) ==
    LET request_df_ == analyze_request_details(es)
        page_timings_ == analyze_page_timings(ps, es)
        summary_ == generate_summary(request_df_, page_timings_)
    IN  IF summary_.exc # "" THEN "None"
        ELSE IF written THEN "report.xlsx"
        ELSE "None"

-----------------------------------------------------------------------------
(* Inputs: the files of the har directory.  A file is named by a number,   *)
(* the rank of its absolute path.  json_ok: json.load succeeds;            *)
(* has_log_entries: the data has "log" and "entries"; parser_ok: HarParser *)
(* accepts the data.                                                       *)

F_BADJSON == [json_ok |-> FALSE, has_log_entries |-> FALSE, parser_ok |-> FALSE,
              entries |-> <<>>, pages |-> <<>>]
F_NOLOG == [json_ok |-> TRUE, has_log_entries |-> FALSE, parser_ok |-> FALSE,
            entries |-> <<>>, pages |-> <<>>]
F_EMPTY == [json_ok |-> TRUE, has_log_entries |-> TRUE, parser_ok |-> TRUE,
            entries |-> <<>>, pages |-> <<>>]
F_GOOD == [json_ok |-> TRUE, has_log_entries |-> TRUE, parser_ok |-> TRUE,
           entries |-> <<BaseEntry>>, pages |-> <<BasePage>>]
F_NOPARSER == [json_ok |-> TRUE, has_log_entries |-> TRUE, parser_ok |-> FALSE,
               entries |-> <<BaseEntry>>, pages |-> <<BasePage>>]

FileContents == {F_BADJSON, F_NOLOG, F_EMPTY, F_GOOD, F_NOPARSER}

FileNames == 1..MaxFiles

\* what glob.glob may return: any list of files of the directory
GlobLists == UNION { [1..k -> FileNames] : k \in 0..MaxFiles }

-----------------------------------------------------------------------------
(* batch_analyze_har_files *)

\* list(set(...)) then sort(): the distinct files in ascending order
RECURSIVE SortedList(_)
SortedList(S) ==
    IF S = {} THEN <<>>
    ELSE LET least == CHOOSE x \in S : \A y \in S : x <= y
         IN  <<least>> \o SortedList(S \ {least})

\* HARPerformanceAnalyzer.__init__ raises: _load_har_file turns any failure
\* into a ValueError
LoadRaises(file) == ~file.json_ok \/ ~file.has_log_entries

\* self.pages after __init__: [] when HarParser failed
LoadedPages(file) == IF file.parser_ok THEN file.pages ELSE <<>>

\* HARPerformanceAnalyzer(har_file).export_to_excel() for each file content
\* that loads, and each outcome of the writing
ExportOutcome ==
    [ file \in { f \in FileContents : ~LoadRaises(f) }, written \in BOOLEAN |->
        export_to_excel(file.entries, LoadedPages(file), written) ]

-----------------------------------------------------------------------------
(* Groups of variables, and the values a specification gives the ones it  *)
(* does not use                                                            *)

classifyVars == <<url, content_type, resource_type>>
analyzerVars == <<entries, pages, request_list, request_df, page_timings,
                  summary_df, output, exc>>
detectVars == <<summary_in, bottleneck_df>>
batchVars == <<disk, globbed, har_files, file_pos, attempts, results,
               failed_files>>

ClassifyIdle == url = <<>> /\ content_type = <<>> /\ resource_type = ""
AnalyzerIdle ==
    /\ entries = <<>> /\ pages = <<>> /\ request_list = <<>>
    /\ request_df = <<>> /\ page_timings = <<>> /\ summary_df = <<>>
    /\ output = "" /\ exc = ""
DetectIdle == summary_in = <<>> /\ bottleneck_df = <<>>
BatchIdle ==
    /\ disk = <<>> /\ globbed = <<>> /\ har_files = <<>> /\ file_pos = 0
    /\ attempts = <<>> /\ results = <<>> /\ failed_files = <<>>

-----------------------------------------------------------------------------
(* Specification of the resource classifier: one call of                   *)
(* _get_resource_type on a (url, content type) pair.                       *)

InitClassify ==
    /\ pc = "classify"
    /\ url \in Urls
    /\ content_type \in ContentTypes
    /\ resource_type = ""
    /\ AnalyzerIdle /\ DetectIdle /\ BatchIdle

Classify ==
    /\ pc = "classify"
    /\ resource_type' = get_resource_type(url, content_type)
    /\ pc' = "classified"
    /\ UNCHANGED <<url, content_type, analyzerVars, detectVars, batchVars>>

NextClassify == Classify

SpecClassify == InitClassify /\ [][NextClassify]_vars

-----------------------------------------------------------------------------
(* Specification of analyze_request_details: the loop over self.entries,   *)
(* one iteration per step, then the return of the DataFrame.               *)

InitRequests ==
    /\ pc = "loop"
    /\ entries \in EntryLists(MaxEntries)
    /\ pages = <<>> /\ request_list = <<>>
    /\ request_df = <<>> /\ page_timings = <<>> /\ summary_df = <<>>
    /\ output = "" /\ exc = ""
    /\ ClassifyIdle /\ DetectIdle /\ BatchIdle

\* for idx, entry in enumerate(self.entries, 1): request_list.append({...})
RequestLoopBody ==
    /\ pc = "loop"
    /\ Len(request_list) < Len(entries)
    /\ LET idx == Len(request_list) + 1
       IN  request_list' = Append(request_list, RequestRecord(idx, entries[idx]))
    /\ UNCHANGED <<pc, entries, pages, request_df, page_timings, summary_df,
                   output, exc, classifyVars, detectVars, batchVars>>

\* return pd.DataFrame(request_list)
RequestReturn ==
    /\ pc = "loop"
    /\ Len(request_list) = Len(entries)
    /\ request_df' = DataFrame(request_list)
    /\ pc' = "returned"
    /\ UNCHANGED <<entries, pages, request_list, page_timings, summary_df,
                   output, exc, classifyVars, detectVars, batchVars>>

NextRequests == RequestLoopBody \/ RequestReturn

SpecRequests == InitRequests /\ [][NextRequests]_vars

-----------------------------------------------------------------------------
(* Specification of the rule engine: one call of identify_bottlenecks on a *)
(* summary.                                                                *)

InitDetect ==
    /\ pc = "detect"
    /\ summary_in \in SummarySet
    /\ bottleneck_df = <<>>
    /\ ClassifyIdle /\ AnalyzerIdle /\ BatchIdle

Detect ==
    /\ pc = "detect"
    /\ bottleneck_df' = identify_bottlenecks(summary_in)
    /\ pc' = "detected"
    /\ UNCHANGED <<summary_in, classifyVars, analyzerVars, batchVars>>

NextDetect == Detect

SpecDetect == InitDetect /\ [][NextDetect]_vars

-----------------------------------------------------------------------------
(* Specification of export_to_excel on one analyzer: the four analyses in  *)
(* their order, then the writing of the report.  Any exception of a step   *)
(* is caught by the except clause, which returns None.                     *)

Init ==
    /\ pc = "requests"
    /\ entries \in EntryLists(MaxPipelineEntries)
    /\ pages \in PagesSet
    /\ request_list = <<>>
    /\ request_df = <<>> /\ page_timings = <<>> /\ summary_df = <<>>
    /\ output = "" /\ exc = ""
    /\ ClassifyIdle /\ DetectIdle /\ BatchIdle

\* request_df = self.analyze_request_details()
AnalyzeRequests ==
    /\ pc = "requests"
    /\ request_df' = analyze_request_details(entries)
    /\ request_list' = request_df'.rows
    /\ pc' = "page"
    /\ UNCHANGED <<entries, pages, page_timings, summary_df, output, exc,
                   classifyVars, detectVars, batchVars>>

\* page_timings = self.analyze_page_timings()
AnalyzePageTimings ==
    /\ pc = "page"
    /\ page_timings' = analyze_page_timings(pages, entries)
    /\ pc' = "summary"
    /\ UNCHANGED <<entries, pages, request_list, request_df, summary_df, output,
                   exc, classifyVars, detectVars, batchVars>>

\* summary_df = self.generate_summary(request_df, page_timings)
GenerateSummary ==
    /\ pc = "summary"
    /\ LET r == generate_summary(request_df, page_timings)
       IN  IF r.exc # ""
           THEN /\ exc' = r.exc
                /\ output' = "None"
                /\ pc' = "done"
                /\ UNCHANGED summary_df
           ELSE /\ summary_df' = r.value
                /\ pc' = "bottlenecks"
                /\ UNCHANGED <<exc, output>>
    /\ UNCHANGED <<entries, pages, request_list, request_df, page_timings,
                   classifyVars, detectVars, batchVars>>

\* bottleneck_df = self.identify_bottlenecks(request_df, summary_df)
IdentifyBottlenecks ==
    /\ pc = "bottlenecks"
    /\ bottleneck_df' = identify_bottlenecks(summary_df)
    /\ pc' = "write"
    /\ UNCHANGED <<summary_in, analyzerVars, classifyVars, batchVars>>

\* with pd.ExcelWriter(output_path, ...) as writer: ...; return output_path
\* The writer may raise (the file cannot be written): None is returned.
WriteReport ==
    /\ pc = "write"
    /\ \E written \in BOOLEAN :
         IF written
         THEN output' = "report.xlsx" /\ UNCHANGED exc
         ELSE output' = "None" /\ exc' = "OSError"
    /\ pc' = "done"
    /\ UNCHANGED <<entries, pages, request_list, request_df, page_timings,
                   summary_df, classifyVars, detectVars, batchVars>>

Next ==
    \/ AnalyzeRequests
    \/ AnalyzePageTimings
    \/ GenerateSummary
    \/ IdentifyBottlenecks
    \/ WriteReport

Spec == Init /\ [][Next]_vars

-----------------------------------------------------------------------------
(* Specification of batch_analyze_har_files: discovery of the files, one   *)
(* loop iteration per step, then the closing report.  The function is      *)
(* sequential code that runs to its end: its steps are weakly fair.        *)

InitBatch ==
    /\ pc = "discover"
    /\ disk \in [FileNames -> FileContents]
    /\ globbed \in GlobLists
    /\ har_files = <<>> /\ file_pos = 0 /\ attempts = <<>>
    /\ results = <<>> /\ failed_files = <<>>
    /\ ClassifyIdle /\ AnalyzerIdle /\ DetectIdle

\* har_files = list(set(abspath(f) ...)); har_files.sort();
\* if not har_files: return
Discover ==
    /\ pc = "discover"
    /\ har_files' = SortedList({ globbed[i] : i \in 1..Len(globbed) })
    /\ pc' = IF har_files' = <<>> THEN "done" ELSE "batch"
    /\ UNCHANGED <<disk, globbed, file_pos, attempts, results, failed_files,
                   classifyVars, analyzerVars, detectVars>>

\* a loop body in which the exception of the loader ends the loop
BatchIterationStopsOnRaise ==
    /\ pc = "batch"
    /\ file_pos < Len(har_files)
    /\ LET har_file == har_files[file_pos + 1]
       IN  /\ attempts' = Append(attempts, har_file)
           /\ IF LoadRaises(disk[har_file])
              THEN /\ failed_files' = Append(failed_files, har_file)
                   /\ pc' = "done"
                   /\ UNCHANGED results
              ELSE /\ \E written \in BOOLEAN :
                        LET result_path == ExportOutcome[disk[har_file], written]
                        IN  IF result_path # "None"
                            THEN /\ results' = Append(results, <<har_file, result_path>>)
                                 /\ UNCHANGED failed_files
                            ELSE /\ failed_files' = Append(failed_files, har_file)
                                 /\ UNCHANGED results
                   /\ UNCHANGED pc
    /\ file_pos' = file_pos + 1
    /\ UNCHANGED <<disk, globbed, har_files, classifyVars, analyzerVars,
                   detectVars>>

\* for har_file in har_files: try: ... except Exception: ...
BatchIteration ==
    /\ pc = "batch"
    /\ file_pos < Len(har_files)
    /\ LET har_file == har_files[file_pos + 1]
       IN  /\ attempts' = Append(attempts, har_file)
           /\ IF LoadRaises(disk[har_file])
              THEN /\ failed_files' = Append(failed_files, har_file)
                   /\ UNCHANGED results
              ELSE \E written \in BOOLEAN :
                     LET result_path == ExportOutcome[disk[har_file], written]
                     IN  IF result_path # "None"
                         THEN /\ results' = Append(results, <<har_file, result_path>>)
                              /\ UNCHANGED failed_files
                         ELSE /\ failed_files' = Append(failed_files, har_file)
                              /\ UNCHANGED results
    /\ file_pos' = file_pos + 1
    /\ UNCHANGED <<pc, disk, globbed, har_files, classifyVars, analyzerVars,
                   detectVars>>

\* the loop is exhausted: the closing report
BatchFinish ==
    /\ pc = "batch"
    /\ file_pos = Len(har_files)
    /\ pc' = "done"
    /\ UNCHANGED <<batchVars, classifyVars, analyzerVars, detectVars>>

NextBatch == Discover \/ BatchIteration \/ BatchFinish

SpecBatch == InitBatch /\ [][NextBatch]_vars /\ WF_vars(NextBatch)

-----------------------------------------------------------------------------
(* Claims about the resource classifier (SpecClassify) *)

\* the label of the first rule of an ordered rule table whose trigger holds
FirstMatch(rules) ==
    rules[CHOOSE i \in 1..Len(rules) :
            /\ rules[i][1]
            /\ \A j \in 1..(i - 1) : ~rules[j][1]][2]

\* the substring the claim names for the JS rule
JAVASCRIPT == <<"j", "a", "v", "a", "s", "c", "r", "i", "p", "t">>

\* the declared content type as a string, None read as the empty string
DeclaredType == IF content_type = <<>> THEN <<>> ELSE content_type[1]

\* the priority table of the claim, with the trigger of the JS rule left open
PriorityTable(js_trigger) ==
    << <<Contains(DeclaredType, TEXT_HTML), "HTML">>,
       <<Contains(DeclaredType, TEXT_CSS), "CSS">>,
       <<js_trigger, "JS">>,
       <<Contains(DeclaredType, IMAGE_), "Image">>,
       <<Contains(DeclaredType, FONT_) \/ Contains(DeclaredType, APP_FONT), "Font">>,
       <<Contains(DeclaredType, APP_JSON) \/ EndsWith(url, DOT_JSON), "JSON-API">>,
       <<Contains(DeclaredType, VIDEO_), "Video">>,
       <<EndsWithAny(Lower(url), JsExtensions), "JS">>,
       <<EndsWithAny(Lower(url), CssExtensions), "CSS">>,
       <<EndsWithAny(Lower(url), ImageExtensions), "Image">>,
       <<EndsWithAny(Lower(url), FontExtensions), "Font">>,
       <<TRUE, "Other">> >>

\* C8 as stated: the classifier returns one of the 8 categories, the one of
\* the first matching rule, where the JS rule triggers on any content type
\* that contains "javascript".
C8_AnyJavascriptIsJS ==
    pc = "classified" =>
        /\ resource_type \in ResourceTypes
        /\ resource_type = FirstMatch(PriorityTable(Contains(DeclaredType, JAVASCRIPT)))

\* C8 amended: the classifier is total, returns one of the 8 categories, and
\* the result is the category of the first matching rule of the priority
\* order, where the JS rule triggers on a content type that contains
\* "application/javascript" or "text/javascript"; app.js with an empty or
\* absent content type is JS.
C8_ClassifierPriority ==
    pc = "classified" =>
        /\ resource_type \in ResourceTypes
        /\ resource_type =
             FirstMatch(PriorityTable(\/ Contains(DeclaredType, APP_JAVASCRIPT)
                                      \/ Contains(DeclaredType, TEXT_JAVASCRIPT)))
        /\ (url = U_APPJS /\ DeclaredType = <<>>) => resource_type = "JS"

\* app.js with an empty content type has been classified JS, and elsewhere a
\* content type decides against the extension
C8_Witness ==
    /\ pc = "classified"
    /\ url = U_APPJS
    /\ content_type = <<CT_EMPTY>>
    /\ resource_type = "JS"

-----------------------------------------------------------------------------
(* Claims about analyze_request_details (SpecRequests) *)

\* C1: the function returns exactly one record per entry, in input order,
\* and the sequence indices of the records are exactly 1..N, N the number of
\* entries (also for the empty list); while the loop runs, the records built
\* so far are those of the first entries.
C1_OneRecordPerEntry ==
    /\ pc = "loop" =>
         /\ Len(request_list) <= Len(entries)
         /\ \A i \in 1..Len(request_list) : request_list[i].seq = i
    /\ pc = "returned" =>
         /\ Len(request_df.rows) = Len(entries)
         /\ { request_df.rows[i].seq : i \in 1..Len(request_df.rows) }
              = 1..Len(entries)
         /\ \A i \in 1..Len(entries) :
              /\ request_df.rows[i].seq = i
              /\ request_df.rows[i].url = Get(entries[i].url, <<>>)
              /\ request_df.rows[i].method = Get(entries[i].method, "")
              /\ request_df.rows[i].status = Get(entries[i].status, 0)

\* two different entries have been turned into two records, in their order
C1_Witness ==
    /\ pc = "returned"
    /\ Len(entries) >= 2
    /\ entries[1].url # entries[2].url
    /\ request_df.rows[1].seq = 1 /\ request_df.rows[2].seq = 2
    /\ request_df.rows[1].url = Get(entries[1].url, <<>>)
    /\ request_df.rows[2].url = Get(entries[2].url, <<>>)

\* the seven durations of a record paired with the raw fields they come from
DurationPairs(row, entry) ==
    { <<row.dns, entry.timings.dns>>, <<row.tcp, entry.timings.connect>>,
      <<row.ssl, entry.timings.ssl>>, <<row.send, entry.timings.send>>,
      <<row.wait, entry.timings.wait>>, <<row.receive, entry.timings.receive>>,
      <<row.total, entry.time>> }

\* C2: each of the six phase durations and the total duration of every
\* record is non-negative, and is 0 whenever the raw field is absent or
\* holds any negative value.
C2_DurationsNonNegative ==
    pc = "returned" =>
        \A i \in 1..Len(entries) :
            \A d \in DurationPairs(request_df.rows[i], entries[i]) :
                /\ d[1] >= 0
                /\ (d[2] = <<>> \/ d[2][1] < 0) => d[1] = 0

\* C6: the slow flag of a record is set iff the total duration of its entry
\* is strictly greater than 500 ms, and the error flag iff the status code
\* is >= 400 (a missing status is no error); each flag is decided by its own
\* field alone.
C6_SlowAndErrorFlags ==
    pc = "returned" =>
        \A i \in 1..Len(entries) :
            /\ request_df.rows[i].is_slow \in {"yes", "no"}
            /\ request_df.rows[i].is_error \in {"yes", "no"}
            /\ (request_df.rows[i].is_slow = "yes")
                 <=> (entries[i].time # <<>> /\ entries[i].time[1] > 500000)
            /\ (request_df.rows[i].is_error = "yes")
                 <=> (entries[i].status # <<>> /\ entries[i].status[1] >= 400)

\* a 600 ms / 200 entry is slow and no error, and a 404 entry of exactly
\* 500 ms is an error and not slow
C6_Witness ==
    /\ pc = "returned"
    /\ \E i, j \in 1..Len(entries) :
         /\ entries[i].time = <<600000>> /\ entries[i].status = <<200>>
         /\ request_df.rows[i].is_slow = "yes"
         /\ request_df.rows[i].is_error = "no"
         /\ entries[j].time = <<500000>> /\ entries[j].status = <<404>>
         /\ request_df.rows[j].is_slow = "no"
         /\ request_df.rows[j].is_error = "yes"

\* the host of https://a.com/x//y
D_A == <<"a", ".", "c", "o", "m">>

\* the host of a URL: the text after the first "//" up to the next "/"
HostAfterFirstSeparator(u) ==
    LET i == FindFirst(u, SLASH2)
        rest == SubSeq(u, i + 2, Len(u))
        j == FindFirst(rest, SLASH)
    IN  IF j = 0 THEN rest ELSE SubSeq(rest, 1, j - 1)

\* C7: the domain of a record is the host obtained by splitting the URL at
\* the first "//" and taking the text up to the next "/", and "unknown" when
\* the URL has no "//"; https://a.com/x//y yields a.com.
C7_DomainIsHost ==
    pc = "returned" =>
        \A i \in 1..Len(entries) :
            LET u == Get(entries[i].url, <<>>)
            IN  /\ request_df.rows[i].domain =
                     IF Contains(u, SLASH2) THEN HostAfterFirstSeparator(u)
                     ELSE UNKNOWN
                /\ u = U_DSLASH => request_df.rows[i].domain = D_A

-----------------------------------------------------------------------------
(* Claims about identify_bottlenecks (SpecDetect) *)

\* the five rules in their order: trigger on summary sm, and finding type
RuleTable(sm) ==
    << <<sm.slow_requests.isnum /\ sm.slow_requests.v > 0, "too many slow resources">>,
       <<sm.total_requests.isnum /\ sm.total_requests.v > 80, "too many requests">>,
       <<sm.error_requests.isnum /\ sm.error_requests.v > 0, "error requests">>,
       <<sm.avg_total_time.isnum /\ sm.avg_total_time.v > 300000,
         "average request time too high">>,
       <<sm.fcp.isnum /\ sm.fcp.v > 1800000, "FCP too slow">> >>

IsTriggered(rule) == rule[1]

\* the types of the rules that trigger on sm, in rule order
FiredTypes(sm) ==
    LET fired == SelectSeq(RuleTable(sm), IsTriggered)
    IN  [i \in 1..Len(fired) |-> fired[i][2]]

IsRuleType(type) == type # "no significant bottleneck"

\* the types of the rule findings of a list of findings, in their order
RuleTypesOf(findings) ==
    SelectSeq([i \in 1..Len(findings) |-> findings[i].type], IsRuleType)

\* sm2 is sm1 with the metric of rule k raised from not triggering to
\* triggering, the metrics of the other rules being the same
RaisesOnly(sm1, sm2, k) ==
    /\ ~RuleTable(sm1)[k][1]
    /\ RuleTable(sm2)[k][1]
    /\ (k # 1) => sm1.slow_requests = sm2.slow_requests
    /\ (k # 2) => sm1.total_requests = sm2.total_requests
    /\ (k # 3) => sm1.error_requests = sm2.error_requests
    /\ (k # 4) => sm1.avg_total_time = sm2.avg_total_time
    /\ (k # 5) => sm1.fcp = sm2.fcp

\* C4: the rule findings returned are exactly the rule-ordered subsequence
\* of the five rules whose trigger holds, each rule decided by its own
\* metric (a placeholder FCP never triggers); raising one metric above its
\* threshold with the others fixed adds the finding of that rule and of no
\* other; 85 requests, 0 slow, 0 errors, mean 200, FCP not captured gives
\* exactly the rule-2 finding.
C4_RulesIndependent ==
    pc = "detected" =>
        /\ RuleTypesOf(bottleneck_df) = FiredTypes(summary_in)
        /\ \A i \in 1..Len(bottleneck_df) :
             bottleneck_df[i].type = "too many requests"
                => bottleneck_df[i].value = summary_in.total_requests
        /\ \A k \in 1..5 : \A sm2 \in SummarySet :
             RaisesOnly(summary_in, sm2, k) =>
                LET before == RuleTypesOf(bottleneck_df)
                    after == RuleTypesOf(identify_bottlenecks(sm2))
                IN  /\ Len(after) = Len(before) + 1
                    /\ { after[i] : i \in 1..Len(after) }
                         = { before[i] : i \in 1..Len(before) }
                             \cup { RuleTable(sm2)[k][2] }
        /\ summary_in = SummaryOf(85, 0, 0, 200000, Str("not captured"))
             => bottleneck_df = << Finding("too many requests", Num(85)) >>

\* the scenario of 85 requests has given exactly the rule-2 finding
C4_Witness ==
    /\ pc = "detected"
    /\ summary_in = SummaryOf(85, 0, 0, 200000, Str("not captured"))
    /\ Len(bottleneck_df) = 1
    /\ bottleneck_df[1].type = "too many requests"

\* C5: the list returned is never empty; the no-bottleneck finding is in it
\* iff none of the five rules fired, and then it is the only finding.
C5_NoBottleneckIffNoRule ==
    pc = "detected" =>
        LET types == { bottleneck_df[i].type : i \in 1..Len(bottleneck_df) }
        IN  /\ bottleneck_df # <<>>
            /\ ("no significant bottleneck" \in types)
                 <=> (\A k \in 1..5 : ~RuleTable(summary_in)[k][1])
            /\ ("no significant bottleneck" \in types)
                 => bottleneck_df = << NoBottleneck >>

\* every metric exactly at its threshold: the no-bottleneck finding alone
C5_Witness ==
    /\ pc = "detected"
    /\ summary_in = SummaryOf(80, 0, 0, 300000, Num(1800000))
    /\ bottleneck_df = << NoBottleneck >>

-----------------------------------------------------------------------------
(* Claims about export_to_excel (Spec) *)

\* C3: generate_summary on the empty request table, the one that
\* analyze_request_details gives for zero entries, with any page timing
\* snapshot, completes without failing and returns total = 0, slow = 0,
\* errors = 0 and mean = 0.
C3_EmptySummaryZeroed ==
    (entries = <<>> /\ pc \in {"bottlenecks", "write", "done"}) =>
        /\ exc # "KeyError"
        /\ summary_df.total_requests = Num(0)
        /\ summary_df.slow_requests = Num(0)
        /\ summary_df.error_requests = Num(0)
        /\ summary_df.avg_total_time = Num(0)

\* reading the navigation data of the first page fails
ReadFails(page) ==
    \/ page.timings = <<>>
    \/ page.url = <<>>
    \/ page.fcp.kind = "text"
    \/ /\ page.timings[1].navigationStart # <<>>
       /\ page.timings[1].navigationStart[1] > 0
       /\ ~page.timestamp_ok

\* C9: analyze_page_timings always returns one of three shapes: (a) with no
\* page data, or a failing read of the first page, and an entry: the first
\* entry's URL and every other field "unavailable"; (b) the same with no
\* entry: the hint alone; (c) otherwise the full snapshot, whose DOM-ready
\* and full-load offsets are never negative and whose first-screen time is
\* FCP + 300 exactly when FCP is captured (positive), "not captured" if not.
C9_PageTimingShapes ==
    pc \in {"summary", "bottlenecks", "write", "done"} =>
        IF pages = <<>> \/ ReadFails(pages[1])
        THEN IF entries # <<>>
             THEN /\ DOMAIN page_timings = PageKeys
                  /\ page_timings.url = Get(entries[1].url, UNKNOWN_URL)
                  /\ \A key \in PageKeys \ {"url"} :
                       page_timings[key] = Str("unavailable")
             ELSE DOMAIN page_timings = {"hint"}
        ELSE /\ DOMAIN page_timings = PageKeys
             /\ page_timings.url = pages[1].url[1]
             /\ page_timings.dom_ready.isnum /\ page_timings.dom_ready.v >= 0
             /\ page_timings.load.isnum /\ page_timings.load.v >= 0
             /\ IF pages[1].fcp.kind = "number" /\ pages[1].fcp.v > 0
                THEN /\ page_timings.fcp.isnum
                     /\ page_timings.first_screen = Num(page_timings.fcp.v + 300000)
                ELSE /\ page_timings.fcp = Str("not captured")
                     /\ page_timings.first_screen = Str("not captured")

\* a first page whose timings cannot be read, with an entry: the degraded
\* shape carries the URL of the first entry
C9_Witness ==
    /\ pc = "summary"
    /\ pages # <<>> /\ pages[1].timings = <<>>
    /\ entries # <<>>
    /\ page_timings.url = Get(entries[1].url, UNKNOWN_URL)
    /\ page_timings.fcp = Str("unavailable")

-----------------------------------------------------------------------------
(* Claims about batch_analyze_har_files (SpecBatch) *)

\* the files of a list of (file, report) pairs
ResultFiles == { results[i][1] : i \in 1..Len(results) }
FailedFiles == { failed_files[i] : i \in 1..Len(failed_files) }

\* the loop has attempted the first file_pos files, each once, in ascending
\* order, and each attempted file is in exactly one of the two lists
BatchProgress ==
    /\ attempts = SubSeq(har_files, 1, file_pos)
    /\ \A i, j \in 1..Len(attempts) : i < j => attempts[i] < attempts[j]
    /\ ResultFiles \cap FailedFiles = {}
    /\ ResultFiles \cup FailedFiles = { attempts[i] : i \in 1..Len(attempts) }
    /\ Len(results) + Len(failed_files) = Len(attempts)

\* at the end every discovered file has been attempted
BatchComplete ==
    pc = "done" =>
        { attempts[i] : i \in 1..Len(attempts) } = { globbed[i] : i \in 1..Len(globbed) }

\* C10: for any set of discovered files and any outcome of each file (the
\* loader raises, the export returns no path, or success) the loop
\* terminates having attempted every file exactly once in sorted order; a
\* failure never keeps a later file from being analysed; at the end each
\* file is in exactly one of the success list and the failed list.
C10_BatchIsolation ==
    /\ [](BatchProgress /\ BatchComplete)
    /\ <>(pc = "done")

\* the first file failed in the loader and the file after it was analysed
C10_Witness ==
    /\ pc = "done"
    /\ Len(har_files) >= 2
    /\ LoadRaises(disk[har_files[1]])
    /\ failed_files = << har_files[1] >>
    /\ Len(results) >= 1
    /\ results[1] = << har_files[2], "report.xlsx" >>

=============================================================================
